---- MODULE Spec2Model ----
(***************************************************************************)
(* Shenandoah task queues (shenandoahTaskqueue.hpp):                       *)
(*   - ParallelClaimableQueueSet: claim_next / reserve / clear_claimed     *)
(*   - BufferedOverflowTaskQueue: push / pop_buffer / clear_buffer         *)
(*   - ShenandoahTaskTerminator:  offer_termination / do_spin_master_work  *)
(*   - ObjArrayChunkedTask:       constructors / accessors / chunk halves  *)
(* Each component has its own specification over its own variables; the    *)
(* variables of the other components are left unchanged.                   *)
(***************************************************************************)
EXTENDS Integers, Naturals, Sequences, FiniteSets, Bags, TLC

(***************************************************************************)
(* Bounds of the model.                                                    *)
(***************************************************************************)
\* number of queues of the queue set (the constructor's n)
NQueues == 2
\* number of threads calling claim_next concurrently
NClaimers == 2
\* claim_next calls started in one claiming epoch
MaxCalls == 4

\* range of a 32-bit jint
MinJint == -2147483647 - 1
MaxJint == 2147483647

\* push calls made on the buffered queue
MaxPush == 4

\* worker threads taking part in the termination protocol
NWorkers == 3
\* tasks pending at one time in the workers' queues and buffers
MaxPending == 2

\* the null Thread*: no worker (workers are numbered from 1)
NULL == 0

\* deepest division of a chunk: powers 0..MaxPow
MaxPow == 3

\* bits of a uintptr_t (sizeof(uintptr_t)*8 under _LP64)
BitsPerWord == 64
\* enum { chunk_bits = 10, pow_bits = 5, ... }
chunk_bits == 10
pow_bits == 5
\* enum { oop_shift = 0, ... }
oop_shift == 0

Claimers == 1..NClaimers

VARIABLES
  _claimed_index,   \* volatile jint _claimed_index
  _reserved,        \* debug_only(uint _reserved)
  cpc,              \* position of each thread inside claim_next
  returned,         \* bag of the queue indices returned in this epoch
  nulls,            \* number of calls of this epoch that returned NULL
  ncalls,           \* number of claim_next calls started in this epoch
  epoch             \* how this epoch began: "fresh", "cleared", "reserved"

qsVars == <<_claimed_index, _reserved, cpc, returned, nulls, ncalls, epoch>>

VARIABLES
  bq,               \* one BufferedOverflowTaskQueue: _buf_empty, _elem, and the
                    \* contents of the OverflowTaskQueue it extends
  pushed,           \* the tasks pushed so far, in push order
  evictions,        \* the tasks handed to the OverflowTaskQueue, in order
  removed,          \* the tasks pop_buffer returned or clear_buffer dropped
  run,              \* pushes since the last pop_buffer / clear_buffer
  lastOp,           \* the last operation on the queue
  popRes            \* the last pop_buffer: result, task, and run before it

bufVars == <<bq, pushed, evictions, removed, run, lastOp, popRes>>

VARIABLES
  wpc,                   \* where each worker is: "active" (outside
                         \* offer_termination: not yet called, or returned
                         \* "resume"), "spin", "wait", "woken" (inside), or
                         \* "terminated" (returned "terminate")
  cap,                   \* the TerminatorTerminator of each worker's call
  _offered_termination,  \* ParallelTaskTerminator::_offered_termination
  _spin_master,          \* Thread* _spin_master
  tq,                    \* the buffered queue of each worker
  exit_requested         \* the external condition should_exit_termination reports

termVars == <<wpc, cap, _offered_termination, _spin_master, tq, exit_requested>>

VARIABLES
  made,             \* the last task constructed: the constructor's arguments,
                    \* the _obj word of the _LP64 class and the fields of the
                    \* fallback class
  work,             \* the tasks of a division in progress, in array order
  root,             \* the chunk <C, P> the division started from
  sane              \* no assert of a constructor has failed in the division

taskVars == <<made, work, root, sane>>

vars == <<qsVars, bufVars, termVars, taskVars>>

notQs == <<bufVars, termVars, taskVars>>
notBuf == <<qsVars, termVars, taskVars>>
notTerm == <<qsVars, bufVars, taskVars>>
notTask == <<qsVars, bufVars, termVars>>

(***************************************************************************)
(* ParallelClaimableQueueSet                                               *)
(***************************************************************************)
\* 32-bit arithmetic wraps; a uint is written as the jint with the same bits
Inc32(x) == IF x = MaxJint THEN MinJint ELSE x + 1
Dec32(x) == IF x = MinJint THEN MaxJint ELSE x - 1

\* GenericTaskQueueSet<T, F>::size(), cast to jint
size == NQueues

\* The constructor leaves _claimed_index without a value: what a read of it
\* yields before clear_claimed() or reserve() is any jint.  These values stand
\* for the cases below zero, inside the set, at its end and beyond it.
UninitJint == {MinJint, -1, 0, 1, size, MaxJint}

QsInit ==
  /\ _claimed_index \in UninitJint
  /\ _reserved = 0
  /\ cpc = [t \in Claimers |-> "idle"]
  /\ returned = EmptyBag
  /\ nulls = 0
  /\ ncalls = 0
  /\ epoch = "fresh"

\* void clear_claimed() { _claimed_index = 0; }
\* A call that has passed its test and not yet added counts in the new epoch.
clear_claimed ==
  /\ _claimed_index' = 0
  /\ epoch' = "cleared"
  /\ returned' = EmptyBag
  /\ nulls' = 0
  /\ ncalls' = Cardinality({t \in Claimers : cpc[t] = "checked"})
  /\ UNCHANGED <<_reserved, cpc>>
  /\ UNCHANGED notQs

\* reserve(n) with the cursor assignment lost (only the debug field is set)
reserve_debug_only(n) ==
  /\ ncalls = 0
  /\ _reserved' = n
  /\ epoch' = "reserved"
  /\ UNCHANGED <<_claimed_index, cpc, returned, nulls, ncalls>>
  /\ UNCHANGED notQs

\* void reserve(uint n): assert(n <= size()); called before any claim_next of
\* the epoch.
reserve(n) ==
  /\ ncalls = 0
  /\ _claimed_index' = n
  /\ _reserved' = n
  /\ epoch' = "reserved"
  /\ UNCHANGED <<cpc, returned, nulls, ncalls>>
  /\ UNCHANGED notQs

\* Atomic::add with the addition lost
AtomicAddLost(v) == v

\* jint index = Atomic::add(1, &_claimed_index): the new value
AtomicAdd(v) == Inc32(v)

\* queue((uint)index): the subtraction forgotten
QueueIndexNew(index) == index

\* queue((uint)index - 1): the index of the queue handed out
QueueIndex(index) == Dec32(index)

\* claim_next without its early return: every call goes on to the add
ClaimCheckNoTest(t) ==
  /\ cpc[t] = "idle"
  /\ ncalls < MaxCalls
  /\ ncalls' = ncalls + 1
  /\ cpc' = [cpc EXCEPT ![t] = "checked"]
  /\ UNCHANGED <<_claimed_index, _reserved, returned, nulls, epoch>>
  /\ UNCHANGED notQs

\* claim_next, first half: if (_claimed_index >= size) return NULL;
ClaimCheck(t) ==
  /\ cpc[t] = "idle"
  /\ ncalls < MaxCalls
  /\ ncalls' = ncalls + 1
  /\ IF _claimed_index >= size
       THEN /\ nulls' = nulls + 1
            /\ UNCHANGED cpc
       ELSE /\ cpc' = [cpc EXCEPT ![t] = "checked"]
            /\ UNCHANGED nulls
  /\ UNCHANGED <<_claimed_index, _reserved, returned, epoch>>
  /\ UNCHANGED notQs

\* claim_next, second half: the atomic add and the result
ClaimAdd(t) ==
  /\ cpc[t] = "checked"
  /\ LET index == AtomicAdd(_claimed_index) IN
       /\ _claimed_index' = index
       /\ IF index <= size
            THEN /\ returned' = returned (+) SetToBag({QueueIndex(index)})
                 /\ UNCHANGED nulls
            ELSE /\ nulls' = nulls + 1
                 /\ UNCHANGED returned
  /\ cpc' = [cpc EXCEPT ![t] = "idle"]
  /\ UNCHANGED <<_reserved, ncalls, epoch>>
  /\ UNCHANGED notQs

QsNext ==
  \/ clear_claimed
  \/ \E n \in 0..size : reserve(n)
  \/ \E t \in Claimers : ClaimCheck(t)
  \/ \E t \in Claimers : ClaimAdd(t)

(***************************************************************************)
(* BufferedOverflowTaskQueue                                               *)
(***************************************************************************)
\* E(): the default task, ObjArrayChunkedTask(oop o = NULL)
DefaultTask == 0

\* BufferedOverflowTaskQueue() : _buf_empty(true); _elem is default-constructed
NewBufferedQueue == [_buf_empty |-> TRUE, _elem |-> DefaultTask, q |-> << >>]

\* taskqueue_t::push(t): always succeeds (ring, else overflow stack)
taskqueue_push(Q, t) == [Q EXCEPT !.q = Append(@, t)]

\* taskqueue_t::is_empty(): ring and overflow stack hold nothing
taskqueue_is_empty(Q) == Q.q = << >>

\* push(E t) that sends the new task to the underlying queue when the buffer
\* is occupied
push_newest_to_queue(Q, t) ==
  IF Q._buf_empty
    THEN [Q EXCEPT !._elem = t, !._buf_empty = FALSE]
    ELSE taskqueue_push(Q, t)

\* push(E t): into the buffer; a task already buffered is evicted into the
\* underlying queue first
push(Q, t) ==
  IF Q._buf_empty
    THEN [Q EXCEPT !._elem = t, !._buf_empty = FALSE]
    ELSE [taskqueue_push(Q, Q._elem) EXCEPT !._elem = t]

\* pop_buffer(E &t): <<result, t, the queue afterwards>>
pop_buffer(Q) ==
  IF Q._buf_empty
    THEN <<FALSE, DefaultTask, Q>>
    ELSE <<TRUE, Q._elem, [Q EXCEPT !._buf_empty = TRUE]>>

\* clear_buffer() { _buf_empty = true; }
clear_buffer(Q) == [Q EXCEPT !._buf_empty = TRUE]

\* buffer_empty() { return _buf_empty; }
buffer_empty(Q) == Q._buf_empty

\* is_empty() that forgets the buffer
is_empty_ignoring_buffer(Q) == taskqueue_is_empty(Q)

\* is_empty() with || in place of &&
is_empty_either(Q) == taskqueue_is_empty(Q) \/ buffer_empty(Q)

\* is_empty() { return taskqueue_t::is_empty() && buffer_empty(); }
is_empty(Q) == taskqueue_is_empty(Q) /\ buffer_empty(Q)

BufInit ==
  /\ bq = NewBufferedQueue
  /\ pushed = << >>
  /\ evictions = << >>
  /\ removed = {}
  /\ run = 0
  /\ lastOp = "none"
  /\ popRes = <<FALSE, DefaultTask, 0>>

\* the owner pushes a new task (tasks are numbered in push order)
Push ==
  /\ Len(pushed) < MaxPush
  /\ LET t == Len(pushed) + 1
         Q == push(bq, t) IN
       /\ bq' = Q
       /\ pushed' = Append(pushed, t)
       /\ evictions' = evictions \o SubSeq(Q.q, Len(bq.q) + 1, Len(Q.q))
  /\ run' = run + 1
  /\ lastOp' = "push"
  /\ UNCHANGED <<removed, popRes>>
  /\ UNCHANGED notBuf

\* the owner pops its buffer
PopBuffer ==
  /\ lastOp # "none"
  /\ LET r == pop_buffer(bq) IN
       /\ bq' = r[3]
       /\ popRes' = <<r[1], r[2], run>>
       /\ removed' = IF r[1] THEN removed \cup {r[2]} ELSE removed
  /\ run' = 0
  /\ lastOp' = "pop_buffer"
  /\ UNCHANGED <<pushed, evictions>>
  /\ UNCHANGED notBuf

\* the owner abandons the buffered task
ClearBuffer ==
  /\ lastOp # "none"
  /\ bq' = clear_buffer(bq)
  /\ removed' = IF bq._buf_empty THEN removed ELSE removed \cup {bq._elem}
  /\ run' = 0
  /\ lastOp' = "clear_buffer"
  /\ UNCHANGED <<pushed, evictions, popRes>>
  /\ UNCHANGED notBuf

\* taskqueue_t::pop_local by the owner: the youngest task of the shared queue
PopLocal ==
  /\ bq.q # << >>
  /\ bq' = [bq EXCEPT !.q = SubSeq(@, 1, Len(@) - 1)]
  /\ lastOp' = "pop_local"
  /\ UNCHANGED <<pushed, evictions, removed, run, popRes>>
  /\ UNCHANGED notBuf

\* a steal by a peer: the oldest task of the shared queue
Steal ==
  /\ bq.q # << >>
  /\ bq' = [bq EXCEPT !.q = Tail(@)]
  /\ lastOp' = "steal"
  /\ UNCHANGED <<pushed, evictions, removed, run, popRes>>
  /\ UNCHANGED notBuf

BufNext ==
  \/ Push
  \/ PopBuffer
  \/ ClearBuffer
  \/ PopLocal
  \/ Steal

\* the queue set between phases: constructed and clear_claimed() called
QsCleared ==
  /\ _claimed_index = 0
  /\ _reserved = 0
  /\ cpc = [t \in Claimers |-> "idle"]
  /\ returned = EmptyBag
  /\ nulls = 0
  /\ ncalls = 0
  /\ epoch = "cleared"

(***************************************************************************)
(* ShenandoahTaskTerminator                                                *)
(***************************************************************************)
Workers == 1..NWorkers

\* ParallelTaskTerminator::_n_threads, the constructor's n_threads
n_threads == NWorkers

\* a mark task (SCMTask); its value plays no part in the protocol
SomeTask == 1

\* the constructor without _spin_master(NULL): the field holds some other
\* pointer
TermInitNoSpinMasterInit ==
  /\ wpc = [t \in Workers |-> "active"]
  /\ cap = [t \in Workers |-> "normal"]
  /\ _offered_termination = 0
  /\ _spin_master = n_threads + 1
  /\ tq = [t \in Workers |-> NewBufferedQueue]
  /\ exit_requested = FALSE

\* ShenandoahTaskTerminator(n_threads, queue_set) :
\*   ParallelTaskTerminator(n_threads, queue_set), _spin_master(NULL)
\* with every worker active on its own, newly constructed, queue
TermInit ==
  /\ wpc = [t \in Workers |-> "active"]
  /\ cap = [t \in Workers |-> "normal"]
  /\ _offered_termination = 0
  /\ _spin_master = NULL
  /\ tq = [t \in Workers |-> NewBufferedQueue]
  /\ exit_requested = FALSE

\* should_force_termination() that never forces
should_force_termination_never(c) == FALSE

\* ShenandoahCancelledTerminatorTerminator::should_force_termination() is
\* true; a normal capability does not force
should_force_termination(c) == c = "forced"

\* a should_exit_termination() that never asks the thread to leave
should_exit_termination_never(c) == FALSE

\* ShenandoahCancelledTerminatorTerminator::should_exit_termination() is
\* false; a normal capability reports the external condition
should_exit_termination(c) == IF c = "forced" THEN FALSE ELSE exit_requested

RECURSIVE SumSizes(_)
SumSizes(S) ==
  IF S = {} THEN 0
  ELSE LET t == CHOOSE x \in S : TRUE IN Len(tq[t].q) + SumSizes(S \ {t})

\* size_t tasks_in_queue_set() { return _queue_set->tasks(); }
\* the aggregate of the underlying queues' sizes: a buffered task is no part
\* of it
tasks_in_queue_set == SumSizes(Workers)

\* tasks pushed and not yet consumed, the buffered ones included
Unconsumed == tasks_in_queue_set + Cardinality({t \in Workers : ~tq[t]._buf_empty})

Working(t) == wpc[t] = "active"
Inside(t) == wpc[t] \in {"spin", "wait", "woken"}

\* the threads blocked on _blocker
Waiters == {t \in Workers : wpc[t] = "wait"}

\* notify_all() that wakes nobody
NotifyNone(pc) == pc

\* _blocker->notify_all(): every blocked thread is made runnable
NotifyAll(pc) == [u \in Workers |-> IF pc[u] = "wait" THEN "woken" ELSE pc[u]]

\* the termination test with the thread count off by one
QuorumReachedEarly(count) ==
  count >= n_threads - 1 /\ tasks_in_queue_set = 0

\* step 2: idle-count equals the thread count and no task is pending
QuorumReached(count) ==
  count = n_threads /\ tasks_in_queue_set = 0

\* the role test that does not look at _spin_master
RoleFreeAlways == TRUE

\* step 3: no thread holds the spin-master role
RoleFree == _spin_master = NULL

(* The marking loop, as far as the protocol sees it. *)
WorkerPush(t) ==
  /\ Working(t)
  /\ Unconsumed < MaxPending
  /\ tq' = [tq EXCEPT ![t] = push(@, SomeTask)]
  /\ UNCHANGED <<wpc, cap, _offered_termination, _spin_master, exit_requested>>
  /\ UNCHANGED notTerm

WorkerPopBuffer(t) ==
  /\ Working(t)
  /\ ~buffer_empty(tq[t])
  /\ tq' = [tq EXCEPT ![t] = pop_buffer(@)[3]]
  /\ UNCHANGED <<wpc, cap, _offered_termination, _spin_master, exit_requested>>
  /\ UNCHANGED notTerm

\* pop_local on the worker's own queue
WorkerPopLocal(t) ==
  /\ Working(t)
  /\ ~taskqueue_is_empty(tq[t])
  /\ tq' = [tq EXCEPT ![t].q = SubSeq(@, 1, Len(@) - 1)]
  /\ UNCHANGED <<wpc, cap, _offered_termination, _spin_master, exit_requested>>
  /\ UNCHANGED notTerm

\* steal from a peer's queue
WorkerSteal(t, u) ==
  /\ Working(t)
  /\ u # t
  /\ ~taskqueue_is_empty(tq[u])
  /\ tq' = [tq EXCEPT ![u].q = Tail(@)]
  /\ UNCHANGED <<wpc, cap, _offered_termination, _spin_master, exit_requested>>
  /\ UNCHANGED notTerm

\* the external condition (a pending safepoint) comes and goes
ExitRequest ==
  /\ exit_requested' = ~exit_requested
  /\ UNCHANGED <<wpc, cap, _offered_termination, _spin_master, tq>>
  /\ UNCHANGED notTerm

\* offer_termination(terminator), steps 1, 2, 3 and 5: called by a worker
\* whose local and buffered queues are empty
Enter(t, c) ==
  /\ Working(t)
  /\ is_empty(tq[t])
  /\ LET count == _offered_termination + 1 IN
       /\ _offered_termination' = count
       /\ cap' = [cap EXCEPT ![t] = c]
       /\ IF QuorumReached(count)
            THEN /\ wpc' = [NotifyAll(wpc) EXCEPT ![t] = "terminated"]
                 /\ UNCHANGED _spin_master
            ELSE IF should_force_termination(c)
            THEN /\ wpc' = [wpc EXCEPT ![t] = "terminated"]
                 /\ UNCHANGED _spin_master
            ELSE IF RoleFree
            THEN /\ wpc' = [wpc EXCEPT ![t] = "spin"]
                 /\ _spin_master' = t
            ELSE /\ wpc' = [wpc EXCEPT ![t] = "wait"]
                 /\ UNCHANGED _spin_master
  /\ UNCHANGED <<tq, exit_requested>>
  /\ UNCHANGED notTerm

\* do_spin_master_work(terminator), one poll that finds something: steps 2,
\* 4 and 6
SpinPoll(t) ==
  /\ wpc[t] = "spin"
  /\ \/ /\ QuorumReached(_offered_termination)
        /\ wpc' = [wpc EXCEPT ![t] = "terminated"]
        /\ _spin_master' = NULL
        /\ UNCHANGED _offered_termination
     \/ /\ ~QuorumReached(_offered_termination)
        /\ should_force_termination(cap[t])
        /\ wpc' = [wpc EXCEPT ![t] = "terminated"]
        /\ _spin_master' = NULL
        /\ UNCHANGED _offered_termination
     \/ /\ ~QuorumReached(_offered_termination)
        /\ ~should_force_termination(cap[t])
        /\ tasks_in_queue_set > 0 \/ should_exit_termination(cap[t])
        /\ _offered_termination' = _offered_termination - 1
        /\ _spin_master' = NULL
        /\ wpc' = [NotifyAll(wpc) EXCEPT ![t] = "active"]
  /\ UNCHANGED <<cap, tq, exit_requested>>
  /\ UNCHANGED notTerm

\* a spin master that blocks without giving up the role
SpinRelinquishKeepRole(t, w) ==
  /\ wpc[t] = "spin"
  /\ ~QuorumReached(_offered_termination)
  /\ ~should_force_termination(cap[t])
  /\ ~(tasks_in_queue_set > 0 \/ should_exit_termination(cap[t]))
  /\ wpc[w] = "wait"
  /\ wpc' = [wpc EXCEPT ![t] = "wait"]
  /\ UNCHANGED <<cap, _offered_termination, _spin_master, tq, exit_requested>>
  /\ UNCHANGED notTerm

\* do_spin_master_work(terminator), a poll that finds nothing: the spin master
\* hands the role to a blocked thread and blocks in its place
SpinRelinquish(t, w) ==
  /\ wpc[t] = "spin"
  /\ ~QuorumReached(_offered_termination)
  /\ ~should_force_termination(cap[t])
  /\ ~(tasks_in_queue_set > 0 \/ should_exit_termination(cap[t]))
  /\ wpc[w] = "wait"
  /\ _spin_master' = w
  /\ wpc' = [wpc EXCEPT ![t] = "wait", ![w] = "spin"]
  /\ UNCHANGED <<cap, _offered_termination, tq, exit_requested>>
  /\ UNCHANGED notTerm

\* a released thread that goes back to work without leaving the idle count
WokenKeepCount(t) ==
  /\ wpc[t] = "woken"
  /\ IF QuorumReached(_offered_termination) \/ should_force_termination(cap[t])
       THEN /\ wpc' = [wpc EXCEPT ![t] = "terminated"]
            /\ UNCHANGED <<_offered_termination, _spin_master>>
       ELSE IF tasks_in_queue_set > 0 \/ should_exit_termination(cap[t])
       THEN /\ wpc' = [wpc EXCEPT ![t] = "active"]
            /\ UNCHANGED <<_offered_termination, _spin_master>>
       ELSE IF RoleFree
       THEN /\ wpc' = [wpc EXCEPT ![t] = "spin"]
            /\ _spin_master' = t
            /\ UNCHANGED _offered_termination
       ELSE /\ wpc' = [wpc EXCEPT ![t] = "wait"]
            /\ UNCHANGED <<_offered_termination, _spin_master>>
  /\ UNCHANGED <<cap, tq, exit_requested>>
  /\ UNCHANGED notTerm

\* offer_termination(terminator), a thread released from the wait
Woken(t) ==
  /\ wpc[t] = "woken"
  /\ IF QuorumReached(_offered_termination) \/ should_force_termination(cap[t])
       THEN /\ wpc' = [wpc EXCEPT ![t] = "terminated"]
            /\ UNCHANGED <<_offered_termination, _spin_master>>
       ELSE IF tasks_in_queue_set > 0 \/ should_exit_termination(cap[t])
       THEN /\ wpc' = [wpc EXCEPT ![t] = "active"]
            /\ _offered_termination' = _offered_termination - 1
            /\ UNCHANGED _spin_master
       ELSE IF RoleFree
       THEN /\ wpc' = [wpc EXCEPT ![t] = "spin"]
            /\ _spin_master' = t
            /\ UNCHANGED _offered_termination
       ELSE /\ wpc' = [wpc EXCEPT ![t] = "wait"]
            /\ UNCHANGED <<_offered_termination, _spin_master>>
  /\ UNCHANGED <<cap, tq, exit_requested>>
  /\ UNCHANGED notTerm

TermNext ==
  \/ \E t \in Workers : WorkerPush(t)
  \/ \E t \in Workers : WorkerPopBuffer(t)
  \/ \E t \in Workers : WorkerPopLocal(t)
  \/ \E t, u \in Workers : WorkerSteal(t, u)
  \/ ExitRequest
  \/ \E t \in Workers, c \in {"normal", "forced"} : Enter(t, c)
  \/ \E t \in Workers : SpinPoll(t)
  \/ \E t, w \in Workers : SpinRelinquish(t, w)
  \/ \E t \in Workers : Woken(t)

(***************************************************************************)
(* ObjArrayChunkedTask                                                     *)
(***************************************************************************)
\* A uintptr_t is written as the set of the positions of its one bits.
WordBits == 0..(BitsPerWord - 1)

ShiftLeft(w, k) == {i + k : i \in w} \cap WordBits
ShiftRight(w, k) == {i - k : i \in {j \in w : j >= k}}
BitAnd(a, b) == a \cap b
BitOr(a, b) == a \cup b
BitNot(a) == WordBits \ a

\* unsigned a < b: the highest bit in which they differ is a bit of b
WordLess(a, b) ==
  LET d == (a \ b) \cup (b \ a) IN
    d # {} /\ (CHOOSE i \in d : \A j \in d : j <= i) \in b

\* (uintptr_t) n for an int n >= 0
ToWord(n) == {i \in 0..30 : (n \div (2 ^ i)) % 2 = 1}

RECURSIVE SumBits(_)
SumBits(w) ==
  IF w = {} THEN 0
  ELSE LET i == CHOOSE j \in w : TRUE IN (2 ^ i) + SumBits(w \ {i})

\* (int) w: the low 32 bits of the word, as a signed value
ToInt(w) == (IF 31 \in w THEN MinJint ELSE 0) + SumBits(w \cap (0..30))

\* an int widened to the word: the sign bit fills the upper half
SignExtend(n) ==
  IF n >= 0 THEN ToWord(n)
  ELSE ToWord(n - MinJint) \cup (31..(BitsPerWord - 1))

\* nth_bit(n), right_n_bits(n) of globalDefinitions.hpp
nth_bit(n) == IF n >= BitsPerWord THEN {} ELSE {n}
right_n_bits(n) == IF n >= BitsPerWord THEN WordBits ELSE 0..(n - 1)

oop_bits == BitsPerWord - chunk_bits - pow_bits

chunk_size == 2 ^ chunk_bits
pow_size == 2 ^ pow_bits
oop_size == nth_bit(oop_bits)

pow_shift == oop_shift + oop_bits
\* a chunk field laid over the pow field
chunk_shift_on_pow == pow_shift
chunk_shift == pow_shift + pow_bits

\* a mask one bit short of the oop field
oop_mask_short == right_n_bits(oop_bits - 1)
oop_mask == right_n_bits(oop_bits)
pow_mask == right_n_bits(pow_bits)
chunk_mask == right_n_bits(chunk_bits)
chunk_mask_unshift == BitNot(right_n_bits(oop_bits + pow_bits))

\* ObjArrayChunkedTask(oop o = NULL) of the _LP64 class: the value of _obj
ObjArrayChunkedTask(o) == ShiftLeft(o, oop_shift)

\* the asserts of ObjArrayChunkedTask(oop o, int chunk, int mult)
ChunkedArgsSane(o, c, m) ==
  /\ 0 <= c /\ c < chunk_size
  /\ 0 <= m /\ m < pow_size
  /\ WordLess(o, oop_size)

\* ObjArrayChunkedTask(oop o, int chunk, int mult) of the _LP64 class, as a
\* build without asserts computes _obj
ObjArrayChunkedTaskOf(o, c, m) ==
  LET t_b == ShiftLeft(SignExtend(c), chunk_shift)
      t_m == ShiftLeft(SignExtend(m), pow_shift)
      t_o == ShiftLeft(o, oop_shift)
  IN BitOr(BitOr(t_o, t_m), t_b)

\* the accessors of the _LP64 class
obj(T) == BitAnd(ShiftRight(T, oop_shift), oop_mask)
chunk(T) == ToInt(BitAnd(SignExtend(ToInt(ShiftRight(T, chunk_shift))), chunk_mask))
pow(T) == ToInt(BitAnd(ShiftRight(T, pow_shift), pow_mask))
is_not_chunked(T) == BitAnd(T, chunk_mask_unshift) = {}

\* the fallback class: ObjArrayChunkedTask(oop o = NULL, int chunk = 0,
\* int pow = 0) and its accessors
FallbackTask(o, c, p) == [_obj |-> o, _chunk |-> c, _pow |-> p]
fallback_obj(T) == T._obj
fallback_chunk(T) == T._chunk
fallback_pow(T) == T._pow
fallback_is_not_chunked(T) == T._chunk = 0

\* chunk <C, P> covers the interval [ (C-1)*2^P; C*2^P )
IntervalLo(C, P) == (C - 1) * (2 ^ P)
IntervalHi(C, P) == C * (2 ^ P)

\* a left half that keeps the id of its parent's left neighbour
SplitLeftOff(C, P) == <<2 * C - 2, P - 1>>
\* the halves of chunk <C, P>: <2*C - 1, P-1> and <2*C, P-1>
SplitLeft(C, P) == <<2 * C - 1, P - 1>>
\* a right half one chunk too far
SplitRightOff(C, P) == <<2 * C + 1, P - 1>>
SplitRight(C, P) == <<2 * C, P - 1>>

\* references: null, a low address, the highest address of the oop field, all
\* of its bits, the first address beyond it, addresses reaching into the
\* chunk field, and the highest word
Refs ==
  { {}, {3}, {3, oop_bits - 1}, right_n_bits(oop_bits), {oop_bits},
    {3, chunk_shift}, {BitsPerWord - 1}, WordBits }

\* chunk ids and powers: the ends and the middle of their fields
ChunkIds == {0, 1, 2, chunk_size \div 2 - 1, chunk_size \div 2, chunk_size - 1}
Pows == {0, 1, MaxPow, pow_size - 1}

\* chunk ids a division starts from
RootIds ==
  {1, 2, 3, chunk_size \div (2 ^ MaxPow) - 1, chunk_size \div (2 ^ MaxPow),
   chunk_size \div 2, chunk_size - 1}

NoTask == [kind |-> "none", o |-> {}, c |-> 0, m |-> 0,
           lp64 |-> {}, fb |-> FallbackTask({}, 0, 0)]

TaskInit ==
  /\ made = NoTask
  /\ work = << >>
  /\ root = <<0, 0>>
  /\ sane = TRUE

\* no task is held and no division is in progress
Idle == made.kind = "none" /\ work = << >>

\* a task for a plain reference is constructed, in both classes
NewTask(o) ==
  /\ Idle
  /\ made' = [kind |-> "plain", o |-> o, c |-> 0, m |-> 0,
              lp64 |-> ObjArrayChunkedTask(o), fb |-> FallbackTask(o, 0, 0)]
  /\ work' = << >>
  /\ root' = <<0, 0>>
  /\ sane' = TRUE
  /\ UNCHANGED notTask

\* a task for a chunk is constructed, in both classes; the asserts hold
NewChunkedTask(o, c, m) ==
  /\ Idle
  /\ ChunkedArgsSane(o, c, m)
  /\ made' = [kind |-> "chunked", o |-> o, c |-> c, m |-> m,
              lp64 |-> ObjArrayChunkedTaskOf(o, c, m),
              fb |-> FallbackTask(o, c, m)]
  /\ work' = << >>
  /\ root' = <<0, 0>>
  /\ sane' = TRUE
  /\ UNCHANGED notTask

\* a division starts with the chunk <C, P> of an array
StartSplit(o, C, P) ==
  /\ Idle
  /\ ChunkedArgsSane(o, C, P)
  /\ work' = << [t |-> ObjArrayChunkedTaskOf(o, C, P), from |-> <<0, 0>>,
                 side |-> "root"] >>
  /\ root' = <<C, P>>
  /\ sane' = TRUE
  /\ made' = NoTask
  /\ UNCHANGED notTask

Splittable(e) == ~is_not_chunked(e.t) /\ pow(e.t) > 0

\* the i-th task of the division is replaced by its two halves, each made
\* with the chunked constructor
Split(i) ==
  /\ i \in DOMAIN work
  /\ Splittable(work[i])
  /\ LET T == work[i].t
         C == chunk(T)
         P == pow(T)
         l == SplitLeft(C, P)
         r == SplitRight(C, P)
         L == [t |-> ObjArrayChunkedTaskOf(obj(T), l[1], l[2]),
               from |-> <<C, P>>, side |-> "left"]
         R == [t |-> ObjArrayChunkedTaskOf(obj(T), r[1], r[2]),
               from |-> <<C, P>>, side |-> "right"]
     IN /\ work' = SubSeq(work, 1, i - 1) \o <<L, R>>
                     \o SubSeq(work, i + 1, Len(work))
        /\ sane' = ( /\ sane
                     /\ ChunkedArgsSane(obj(T), l[1], l[2])
                     /\ ChunkedArgsSane(obj(T), r[1], r[2]) )
  /\ UNCHANGED <<made, root>>
  /\ UNCHANGED notTask

\* the task held, or the tasks of the division, are consumed
DropTasks ==
  /\ ~Idle
  /\ made' = NoTask
  /\ work' = << >>
  /\ root' = <<0, 0>>
  /\ sane' = TRUE
  /\ UNCHANGED notTask

TaskNext ==
  \/ \E o \in Refs : NewTask(o)
  \/ \E o \in Refs, c \in ChunkIds, m \in Pows : NewChunkedTask(o, c, m)
  \/ \E o \in {{}, {3, oop_bits - 1}}, C \in RootIds, P \in 0..MaxPow :
       StartSplit(o, C, P)
  \/ \E i \in 1..(2 ^ MaxPow) : Split(i)
  \/ DropTasks

\* the termination protocol
InitTerm == QsCleared /\ BufInit /\ TermInit /\ TaskInit

SpecTerm == InitTerm /\ [][TermNext]_vars

\* the termination protocol with every thread inside offer_termination
\* scheduled: a poll that finds something, and a released thread, run
SpecTermFair ==
  /\ SpecTerm
  /\ \A t \in Workers : WF_vars(SpinPoll(t)) /\ WF_vars(Woken(t))

\* the queue set, with a buffered queue and a terminator just constructed
InitClaim == QsInit /\ BufInit /\ TermInit /\ TaskInit

SpecClaim == InitClaim /\ [][QsNext]_vars

\* one buffered queue
InitBuf == QsCleared /\ BufInit /\ TermInit /\ TaskInit

SpecBuf == InitBuf /\ [][BufNext]_vars

\* tasks constructed, read back and divided
InitTask == QsCleared /\ BufInit /\ TermInit /\ TaskInit

SpecTask == InitTask /\ [][TaskNext]_vars

\* number of calls of this epoch that have returned
Completed == BagCardinality(returned) + nulls

\* C1: within one claiming epoch no two claim_next calls that return a queue
\* return the same queue index, under every interleaving of the callers.
C1_NoDuplicateClaim ==
  \A i \in BagToSet(returned) : CopiesIn(i, returned) = 1

\* two calls of one epoch have both returned a queue
C1_Witness ==
  /\ epoch = "cleared"
  /\ BagCardinality(returned) >= 2

\* the queue indices of the set
QueueIds == 0..(size - 1)

\* C4: in an epoch with no reservation (freshly constructed, or after
\* clear_claimed()) the calls that return a queue return the indices 0..N-1,
\* each once; once N calls have returned none is omitted, and a call reports
\* exhaustion only after all N queues have been handed out.
C4_PermutationThenExhausted ==
  epoch \in {"fresh", "cleared"} =>
    /\ \A i \in BagToSet(returned) : i \in QueueIds /\ CopiesIn(i, returned) = 1
    /\ Completed >= size => BagToSet(returned) = QueueIds
    /\ nulls > 0 => BagToSet(returned) = QueueIds

\* the same statement for the epochs that clear_claimed() begins
C4_AfterClear ==
  epoch = "cleared" =>
    /\ \A i \in BagToSet(returned) : i \in QueueIds /\ CopiesIn(i, returned) = 1
    /\ Completed >= size => BagToSet(returned) = QueueIds
    /\ nulls > 0 => BagToSet(returned) = QueueIds

\* a cleared epoch in which every queue was handed out and a further call
\* reported exhaustion
C4_AfterClearWitness ==
  /\ epoch = "cleared"
  /\ BagToSet(returned) = QueueIds
  /\ nulls > 0

\* C5: after reserve(k), and until the next clear_claimed(), no claim_next call
\* returns a queue whose index is below k.
C5_ReservedNeverClaimed ==
  epoch = "reserved" =>
    \A i \in BagToSet(returned) : i >= _reserved

\* a queue was claimed after a reservation of at least one queue
C5_Witness ==
  /\ epoch = "reserved"
  /\ _reserved >= 1
  /\ BagCardinality(returned) >= 1

(***************************************************************************)
(* Termination protocol                                                    *)
(***************************************************************************)
AllEntered == \A t \in Workers : wpc[t] \in {"spin", "wait", "woken", "terminated"}

\* C2: a call with a normal capability has returned "terminate" only when the
\* idle-count equals the thread count, the queue set reports no pending task
\* and no participating thread is still active.
C2_TerminateOnlyAtQuorum ==
  \A t \in Workers :
    (wpc[t] = "terminated" /\ cap[t] = "normal") =>
      /\ _offered_termination = n_threads
      /\ tasks_in_queue_set = 0
      /\ \A u \in Workers : ~Working(u)

\* every call, all with the normal capability, has returned "terminate"
C2_Witness ==
  \A t \in Workers : wpc[t] = "terminated" /\ cap[t] = "normal"

\* C3: once all threads have entered offer_termination and no task is
\* pending, every call eventually returns "terminate": no thread stays
\* spinning or blocked.
C3_AllEventuallyTerminate ==
  (AllEntered /\ tasks_in_queue_set = 0) ~> (\A t \in Workers : wpc[t] = "terminated")

\* the last thread has arrived while one thread was spinning and another was
\* blocked and has just been released
C3_Witness ==
  /\ AllEntered
  /\ tasks_in_queue_set = 0
  /\ \E t, u \in Workers : wpc[t] = "spin" /\ wpc[u] = "woken"

C7_ResumeOnPendingTasks ==
  /\ [][\A t \in Workers :
          /\ (wpc[t] = "spin" /\ wpc'[t] = "active") =>
               /\ _offered_termination' = _offered_termination - 1
               /\ _spin_master' = NULL
               /\ \A u \in Workers : wpc'[u] # "wait"
          /\ (Inside(t) /\ tasks_in_queue_set > 0) => wpc'[t] # "terminated"]_vars
  /\ \A t \in Workers :
       (Inside(t) /\ tasks_in_queue_set > 0)
          ~> (Working(t) \/ tasks_in_queue_set = 0)

\* the spin master has resumed on pending tasks and released a blocked thread:
\* tasks are pending, the role is free, the idle-count counts only the
\* released thread, which has not yet run
C7_Witness ==
  /\ tasks_in_queue_set > 0
  /\ _spin_master = NULL
  /\ _offered_termination = 1
  /\ \E t, u \in Workers : t # u /\ Working(t) /\ is_empty(tq[t]) /\ wpc[u] = "woken"

\* C8: at most one thread is spinning, and it is the one _spin_master names;
\* every other thread inside offer_termination is blocked or being released.
C8_SingleSpinMaster ==
  /\ Cardinality({t \in Workers : wpc[t] = "spin"}) <= 1
  /\ \A t \in Workers : wpc[t] = "spin" => _spin_master = t

\* one thread spins while another, which found the role taken, is blocked
C8_Witness ==
  \E t \in Workers :
    /\ wpc[t] = "spin"
    /\ _spin_master = t
    /\ Cardinality(Waiters) >= 1

Range(f) == {f[i] : i \in DOMAIN f}

Outstanding ==
  Len(pushed) - Cardinality(removed) - (Len(evictions) - Len(bq.q))

\* C11: is_empty() is true exactly when no pushed task is left in the buffer
\* or in the underlying queue; it is false right after a push, and it is true
\* again only when the buffer and the underlying queue have both been drained.
C11_EmptyIffBothDrained ==
  /\ is_empty(bq) <=> (Outstanding = 0)
  /\ lastOp = "push" => ~is_empty(bq)
  /\ is_empty(bq) => (bq._buf_empty /\ bq.q = << >>)

\* three pushes, the buffer popped, the two evicted tasks taken from the
\* underlying queue: the queue is empty again
C11_Witness ==
  /\ pushed = <<1, 2, 3>>
  /\ removed = {3}
  /\ evictions = <<1, 2>>
  /\ lastOp \in {"pop_local", "steal"}
  /\ is_empty(bq)

(***************************************************************************)
(* Terminator: leaving on should_exit_termination(), role, idle count      *)
(***************************************************************************)
\* C12: when the exit condition of its terminator holds while a thread is
\* spinning and termination has not been declared, the step that takes the
\* thread out of the spin returns "resume" (the thread works again), takes one
\* off the idle count and leaves the spin-master role free for another
\* thread; and the spinning thread does leave, unless the condition goes away
\* or termination is declared first.
C12_ExitWhileSpinning ==
  /\ [][\A t \in Workers :
          ( /\ wpc[t] = "spin"
            /\ cap[t] = "normal"
            /\ exit_requested
            /\ ~QuorumReached(_offered_termination)
            /\ wpc'[t] # "spin" )
          => ( /\ Working(t)'
               /\ _offered_termination' = _offered_termination - 1
               /\ _spin_master' = NULL )]_vars
  /\ \A t \in Workers :
       (wpc[t] = "spin" /\ cap[t] = "normal" /\ exit_requested)
         ~> (Working(t) \/ ~exit_requested \/ wpc[t] = "terminated")

\* the exit condition holds, no task is anywhere, the spin master has gone
\* back to work and released a blocked thread, and the role is free
C12_Witness ==
  /\ exit_requested
  /\ Unconsumed = 0
  /\ _spin_master = NULL
  /\ _offered_termination = 1
  /\ \E t, u \in Workers :
       /\ Working(t) /\ cap[t] = "normal"
       /\ wpc[u] = "woken"

(***************************************************************************)
(* ObjArrayChunkedTask: encodings and division                             *)
(***************************************************************************)
\* what C13 asks of a task made from the plain reference o, in the _LP64
\* class and in the fallback class
PlainReadsBackLP64 ==
  /\ is_not_chunked(made.lp64)
  /\ chunk(made.lp64) = 0
  /\ obj(made.lp64) = made.o

PlainReadsBackFallback ==
  /\ fallback_is_not_chunked(made.fb)
  /\ fallback_chunk(made.fb) = 0
  /\ fallback_obj(made.fb) = made.o

\* C13, as stated: for every word-sized reference r, in either encoding, the
\* task made from r alone is not chunked, has chunk id 0 and gives r back.
C13_PlainTaskEveryReference ==
  made.kind = "plain" => (PlainReadsBackLP64 /\ PlainReadsBackFallback)

\* C13, amended: the task made from a reference r alone is not chunked, has
\* chunk id 0 and gives r back, for every r in the fallback encoding and for
\* every r below oop_size (2^49) in the packed encoding.
C13_PlainTaskInBudget ==
  made.kind = "plain" =>
    /\ PlainReadsBackFallback
    /\ WordLess(made.o, oop_size) => PlainReadsBackLP64

\* a plain task for the highest reference of the oop field
C13_Witness ==
  /\ made.kind = "plain"
  /\ made.o = right_n_bits(oop_bits)
  /\ obj(made.lp64) = made.o

Interval(C, P) == IntervalLo(C, P)..(IntervalHi(C, P) - 1)

\* C14: for every chunk <C, P> with C >= 1 and P >= 1 that was divided, the
\* halves <2C-1, P-1> and <2C, P-1> cover intervals of equal length that are
\* disjoint and whose union is the interval [(C-1)*2^P, C*2^P) of <C, P>.
C14_HalvesPartitionParent ==
  \A i \in DOMAIN work :
    LET C == work[i].from[1]
        P == work[i].from[2]
        l == SplitLeft(C, P)
        r == SplitRight(C, P)
        Il == Interval(l[1], l[2])
        Ir == Interval(r[1], r[2])
    IN (work[i].side # "root" /\ C >= 1 /\ P >= 1) =>
         /\ Cardinality(Il) = Cardinality(Ir)
         /\ Il # {}
         /\ Il \cap Ir = {}
         /\ Il \cup Ir = Interval(C, P)

\* a chunk of power MaxPow and id above 1 has been divided
C14_Witness ==
  \E i \in DOMAIN work :
    /\ work[i].side = "right"
    /\ work[i].from[1] > 1
    /\ work[i].from[2] = MaxPow

Divided == work # << >> /\ \A i \in DOMAIN work : ~Splittable(work[i])

\* the division ended with one power-0 chunk for each unit of the root's
\* interval, in order
CoversRootOnce ==
  /\ Len(work) = 2 ^ root[2]
  /\ \A i \in DOMAIN work :
       /\ ~is_not_chunked(work[i].t)
       /\ pow(work[i].t) = 0
       /\ Interval(chunk(work[i].t), 0) = {IntervalLo(root[1], root[2]) + i - 1}

\* C15, as stated: dividing any constructible chunk <C, P> until no task has
\* a power above 0 ends with 2^P power-0 tasks covering the interval of
\* <C, P> exactly once, and every child made on the way is constructible.
C15_DivisionOfAnyChunk ==
  work # << >> => (sane /\ (Divided => CoversRootOnce))

\* C15, amended: the same, for the chunks <C, P> with C >= 1 whose last unit
\* id C*2^P is below chunk_size (1024).
C15_DivisionWithinChunkIds ==
  (work # << >> /\ root[1] >= 1 /\ root[1] * (2 ^ root[2]) < chunk_size) =>
    (sane /\ (Divided => CoversRootOnce))

\* the largest chunk of power MaxPow whose units all have ids below
\* chunk_size has been divided to the end
C15_Witness ==
  /\ Divided
  /\ root = <<chunk_size \div (2 ^ MaxPow) - 1, MaxPow>>
  /\ Len(work) = 2 ^ MaxPow

\* C16: for every reference r, chunk id c and power p within their budgets,
\* the packed task and the three-field task made from them return the same
\* reference, chunk id, power and is-plain answer: r, c, p and (c = 0).
C16_EncodingsAgree ==
  made.kind = "chunked" =>
    /\ obj(made.lp64) = made.o
    /\ fallback_obj(made.fb) = made.o
    /\ chunk(made.lp64) = made.c
    /\ fallback_chunk(made.fb) = made.c
    /\ pow(made.lp64) = made.m
    /\ fallback_pow(made.fb) = made.m
    /\ is_not_chunked(made.lp64) = (made.c = 0)
    /\ fallback_is_not_chunked(made.fb) = (made.c = 0)

\* every field at the top of its budget
C16_Witness ==
  /\ made.kind = "chunked"
  /\ made.o = right_n_bits(oop_bits)
  /\ made.c = chunk_size - 1
  /\ made.m = pow_size - 1

(***************************************************************************)
(* Queue set: the cursor                                                   *)
(***************************************************************************)
\* a claim_next call returns in this step: at its test, or after its add
ReturnsAtTest == nulls' = nulls + 1 /\ cpc' = cpc
ReturnsAfterAdd(t) == cpc[t] = "checked" /\ cpc'[t] = "idle"

\* C17, as stated: every claim_next call, the calls made after all queues
\* were claimed included, adds exactly one to the cursor and returns the queue
\* at the index the cursor had when that index is below size, and reports
\* exhaustion otherwise.
C17_EveryCallIncrements ==
  [][(ReturnsAtTest \/ \E t \in Claimers : ReturnsAfterAdd(t)) =>
       /\ _claimed_index' = Inc32(_claimed_index)
       /\ IF _claimed_index < size
            THEN /\ returned' = returned (+) SetToBag({_claimed_index})
                 /\ nulls' = nulls
            ELSE /\ returned' = returned
                 /\ nulls' = nulls + 1]_vars

\* C17, amended: a claim_next call that finds the cursor below size adds
\* exactly one to it, atomically, and returns the queue at the index the
\* cursor had before the add when that index is below size, and reports
\* exhaustion otherwise; a call that finds the cursor at or beyond size, as
\* the calls made after all queues were claimed do, reports exhaustion and
\* leaves the cursor as it is.
C17_CallsBelowSizeIncrement ==
  [][/\ \A t \in Claimers : ReturnsAfterAdd(t) =>
          /\ _claimed_index' = Inc32(_claimed_index)
          /\ IF _claimed_index < size
               THEN /\ returned' = returned (+) SetToBag({_claimed_index})
                    /\ nulls' = nulls
               ELSE /\ returned' = returned
                    /\ nulls' = nulls + 1
     /\ \A t \in Claimers : (cpc[t] = "idle" /\ cpc'[t] = "checked") =>
          /\ _claimed_index < size
          /\ _claimed_index' = _claimed_index
     /\ ReturnsAtTest =>
          /\ _claimed_index >= size
          /\ _claimed_index' = _claimed_index
          /\ returned' = returned]_vars

\* after clear_claimed every queue was handed out, two more calls reported
\* exhaustion, and the cursor stands at size
C17_Witness ==
  /\ epoch = "cleared"
  /\ BagToSet(returned) = QueueIds
  /\ nulls = 2
  /\ _claimed_index = size
  /\ \A t \in Claimers : cpc[t] = "idle"

\* the callers that have passed the test and not yet added
Checked == {t \in Claimers : cpc[t] = "checked"}

\* C19: in an epoch begun by clear_claimed() or reserve(), with NClaimers
\* threads calling claim_next on size queues, the cursor never exceeds
\* size + NClaimers - 1 (nor does it with the adds still to come), however
\* many calls are made; in every epoch a call that finds the cursor at or
\* beyond size reports exhaustion and leaves the cursor as it is, so the
\* cursor does not wrap and no queue is handed out a second time.
C19_CursorBounded ==
  /\ [](epoch # "fresh" =>
         /\ 0 <= _claimed_index
         /\ _claimed_index + Cardinality(Checked) <= size + NClaimers - 1)
  /\ [][(_claimed_index >= size /\ ncalls' = ncalls + 1) =>
           /\ _claimed_index' = _claimed_index
           /\ nulls' = nulls + 1
           /\ returned' = returned]_vars
  /\ [](epoch # "fresh" => \A i \in BagToSet(returned) : CopiesIn(i, returned) = 1)

\* every caller passed the test before the last queue was handed out: the
\* cursor stands at size + NClaimers - 1, and a later call reported exhaustion
C19_Witness ==
  /\ epoch = "cleared"
  /\ _claimed_index = size + NClaimers - 1
  /\ nulls = NClaimers
  /\ ncalls = MaxCalls

(***************************************************************************)
(* Terminator: who holds the role, and the idle count                      *)
(***************************************************************************)
Spinning == {t \in Workers : wpc[t] = "spin"}

Entered == {t \in Workers : ~Working(t)}

\* C20: _offered_termination is between 0 and n_threads and is the number of
\* threads that have entered offer_termination and not returned "resume";
\* each entry adds exactly one to it and each "resume" takes exactly one off.
C20_IdleCountIsEntered ==
  /\ [](/\ 0 <= _offered_termination
        /\ _offered_termination <= n_threads
        /\ _offered_termination = Cardinality(Entered))
  /\ [][\A t \in Workers :
          /\ (Working(t) /\ ~Working(t)') =>
               _offered_termination' = _offered_termination + 1
          /\ (~Working(t) /\ Working(t)') =>
               _offered_termination' = _offered_termination - 1]_vars

\* the spin master went back to work on a pending task, releasing a blocked
\* thread, and then entered again and spins: the count went up to 2, down to
\* 1 and up to 2
C20_Witness ==
  \E s, w \in Workers :
    /\ wpc[s] = "spin" /\ _spin_master = s
    /\ wpc[w] = "woken"
    /\ tasks_in_queue_set > 0
    /\ _offered_termination = 2

====
